---- MODULE Spec2Model ----
(***************************************************************************)
(* Pulsar detection core: the rules engine (rules-engine/src/engine.rs)    *)
(* and the network monitor (network-monitor/src/lib.rs).                   *)
(*                                                                         *)
(* Five state machines share the variables below:                          *)
(*   Spec     - PulsarEngine::new over a rules directory;                  *)
(*   SpecRun  - PulsarEngine::process on a constructed engine, with every  *)
(*              derived threat event delivered back to the engine          *)
(*              (LiveRun adds the fairness of the event loop);             *)
(*   SpecNet  - the network monitor's conversions and event delivery;      *)
(*   SpecPipe - sensor tasks handing what they send to one shared engine;  *)
(*   SpecTask - syscall_monitor_task from probe attachment to shutdown     *)
(*              (LiveTask adds the fairness of the task's own steps).      *)
(***************************************************************************)
EXTENDS Integers, Sequences, FiniteSets, TLC

VARIABLES
    rules_path,  \* argument of PulsarEngine::new: the rules directory
    raw_rules,   \* local `raw_rules` of new (result of load_user_rules_from_dir)
    rules,       \* local `rules` of new (result of parse_rules)
    engine,      \* what new returned: Ok(PulsarEngineInternal.rulesets) or Err
    queue,       \* events waiting to be handed to PulsarEngine::process
    emitted,     \* every send_threat_derived call made so far, in order
    step,        \* the last call of process: its event, predicates run, names sent
    originals,   \* number of original events observed so far
    conv,        \* the address conversion made: input, Addr, and back
    net_event,   \* the BpfEvent<NetworkEvent> handed to the sensor's sender
    delivered,   \* what the sensor's senders emitted downstream for net_event
    producers,   \* per sensor task: its records, pending sends and engine calls
    task         \* syscall_monitor_task: its position, probes, shutdown signal, result

vars == <<rules_path, raw_rules, rules, engine, queue, emitted, step, originals,
          conv, net_event, delivered, producers, task>>

loadVars == <<rules_path, raw_rules, rules, engine>>
runVars == <<queue, emitted, step, originals>>
netVars == <<conv, net_event, delivered>>
pipeVars == <<producers>>
taskVars == <<task>>

----------------------------------------------------------------------------
(* Bounds of the model *)

MaxEntries == 2      \* directory entries yielded by the glob
MaxRules == 2        \* user rules in the whole directory
MaxOriginals == 2    \* original events observed by the sensors
MaxRecords == 2      \* kernel records delivered to one sensor task
MaxData == 5         \* captured bytes of a Send or Receive record

----------------------------------------------------------------------------
(* Result<T, E> and Option<T> *)

Ok(v) == [ok |-> TRUE, val |-> v]
Err(e) == [ok |-> FALSE, err |-> e]
None == <<>>
Some(v) == <<v>>
NotReached == [ok |-> FALSE, err |-> [kind |-> "NotReached"]]

\* Iterator::collect::<Result<Vec<_>, E>>(): the first Err in order, else all values
RECURSIVE CollectResults(_)
CollectResults(rs) ==
    IF rs = <<>> THEN Ok(<<>>)
    ELSE IF ~Head(rs).ok THEN Head(rs)
    ELSE LET t == CollectResults(Tail(rs))
         IN IF t.ok THEN Ok(<<Head(rs).val>> \o t.val) ELSE t

\* Iterator::flatten() over a sequence of sequences
RECURSIVE Flatten(_)
Flatten(ss) == IF ss = <<>> THEN <<>> ELSE Head(ss) \o Flatten(Tail(ss))

Map(f(_), s) == [i \in 1..Len(s) |-> f(s[i])]

----------------------------------------------------------------------------
(* Event types, condition texts and user rules *)

\* the event-type keys of this model (PayloadDiscriminant)
PayloadDiscriminants == {"Exec", "Bind", "Connect"}

\* the fields declared for each payload variant, with their types
PayloadFields ==
    [Exec |-> [filename |-> "string"],
     Bind |-> [address |-> "string"],
     Connect |-> [destination |-> "string"]]

\* PayloadDiscriminant::from_str: the exact name of a supported key, or an error
PayloadDiscriminant_from_str(s) ==
    IF s \in PayloadDiscriminants THEN Ok(s) ELSE Err("VariantNotFound")

\* condition texts, as token lists
CondNetcat == <<"payload", ".", "filename", "==", "/usr/bin/nc">>
CondAddress == <<"payload", ".", "address", "==", "0.0.0.0:80">>
CondOrdering == <<"payload", ".", "filename", ">", "/usr/bin">>
CondBroken == <<"payload", ".", "filename", "==">>

RelationalOperators == [x \in {"==", ">"} |-> IF x = "==" THEN "Equals" ELSE "Greater"]

\* dsl::ConditionParser::parse(variant, text): `payload.<field> <op> <literal>`,
\* the field resolved against the declared shape of the variant
ConditionParser_parse(variant, text) ==
    IF /\ Len(text) = 5
       /\ text[1] = "payload" /\ text[2] = "."
       /\ text[4] \in DOMAIN RelationalOperators
       /\ variant \in DOMAIN PayloadFields
       /\ text[3] \in DOMAIN PayloadFields[variant]
    THEN Ok([field_path |-> <<[field_name |-> "payload"],
                              [variant_name |-> variant, field_name |-> text[3]]>>,
             op |-> RelationalOperators[text[4]],
             value |-> text[5]])
    ELSE Err("parse error")

UserRule(n, t, c) == [name |-> n, type |-> t, condition |-> c]

\* the user rules that rule files are written from
UserRulePool ==
    { UserRule("Open netcat", "Exec", CondNetcat),
      UserRule("Netcat again", "Exec", CondNetcat),
      UserRule("Bind http", "Bind", CondAddress),
      UserRule("Ordered", "Exec", CondOrdering),
      UserRule("Broken", "Exec", CondBroken),
      UserRule("No type", "Nope", CondNetcat),
      UserRule("No type, broken", "Nope", CondBroken) }

----------------------------------------------------------------------------
(* The rules directory *)

RuleSeqs(n) == UNION {[1..k -> UserRulePool] : k \in 0..n}

\* one item of glob()'s iterator: an Err(GlobError), or the path of a file that
\* can be read or not, whose body is a YAML list of rules or not
Entries(budget) ==
    {[kind |-> k, records |-> <<>>] : k \in {"GlobError", "Unreadable", "Malformed"}}
    \cup {[kind |-> "Rules", records |-> rs] : rs \in RuleSeqs(budget)}

RECURSIVE DirEntries(_, _)
DirEntries(n, budget) ==
    IF n = 0 THEN {<<>>}
    ELSE {<<>>} \cup
         UNION {{<<e>> \o rest : rest \in DirEntries(n - 1, budget - Len(e.records))}
                : e \in Entries(budget)}

Directories ==
    {[pattern_ok |-> p, entries |-> es] :
        p \in BOOLEAN, es \in DirEntries(MaxEntries, MaxRules)}

\* the order in which a HashMap<PayloadDiscriminant, _> is iterated
KeyOrders ==
    {o \in [1..Cardinality(PayloadDiscriminants) -> PayloadDiscriminants] :
        \A i, j \in DOMAIN o : i # j => o[i] # o[j]}

----------------------------------------------------------------------------
(* engine.rs: loading and compiling *)

\* RuleFile::from(path): read the file, or RuleLoading naming it
RuleFile_from(i, entry) ==
    IF entry.kind = "Unreadable"
    THEN Err([kind |-> "RuleLoading", name |-> i])
    ELSE Ok([path |-> i, body |-> entry])

\* serde_yaml::from_str::<Vec<UserRule>>(&rule_file.body), mapped to RuleParsing
ParseRuleFile(rule_file) ==
    IF rule_file.body.kind = "Malformed"
    THEN Err([kind |-> "RuleParsing", filename |-> rule_file.path])
    ELSE Ok(rule_file.body.records)

\* `for path in entries.flatten()`: the Ok items of the glob iterator, in order
GlobPaths(entries) ==
    LET idx == {i \in DOMAIN entries : entries[i].kind # "GlobError"}
        RECURSIVE Asc(_, _)
        Asc(i, acc) == IF i > Len(entries) THEN acc
                       ELSE Asc(i + 1, IF i \in idx THEN Append(acc, i) ELSE acc)
    IN Asc(1, <<>>)

\* load_user_rules_from_dir that parses each file as soon as it has read it
load_user_rules_file_by_file(path) ==
    IF ~path.pattern_ok THEN Err([kind |-> "RuleListing"])
    ELSE
      LET paths == GlobPaths(path.entries)
          read_and_parse(i) ==
              LET rule_file == RuleFile_from(i, path.entries[i])
              IN IF ~rule_file.ok THEN rule_file ELSE ParseRuleFile(rule_file.val)
          parsed == CollectResults(Map(read_and_parse, paths))
      IN IF ~parsed.ok THEN parsed ELSE Ok(Flatten(parsed.val))

load_user_rules_from_dir(path) ==
    IF ~path.pattern_ok THEN Err([kind |-> "RuleListing"])
    ELSE
      LET paths == GlobPaths(path.entries)
          read(i) == RuleFile_from(i, path.entries[i])
          rule_files == CollectResults(Map(read, paths))
      IN IF ~rule_files.ok THEN rule_files
         ELSE LET parsed == CollectResults(Map(ParseRuleFile, rule_files.val))
              IN IF ~parsed.ok THEN parsed ELSE Ok(Flatten(parsed.val))

\* parse_rule with the condition compiled before the type is resolved
parse_rule_condition_first(user_rule) ==
    LET condition == ConditionParser_parse(user_rule.type, user_rule.condition)
        payload_discriminant == PayloadDiscriminant_from_str(user_rule.type)
    IN IF ~condition.ok
       THEN Err([kind |-> "DslError", condition |-> user_rule.condition,
                 cause |-> condition.err])
       ELSE IF ~payload_discriminant.ok
       THEN Err([kind |-> "PayloadTypeNotFound", type |-> user_rule.type])
       ELSE Ok(<<payload_discriminant.val,
                 [name |-> user_rule.name, condition |-> condition.val]>>)

\* parse_rule that names the compiled rule after the type of the user rule
parse_rule_named_by_type(user_rule) ==
    LET payload_discriminant == PayloadDiscriminant_from_str(user_rule.type)
    IN IF ~payload_discriminant.ok
       THEN Err([kind |-> "PayloadTypeNotFound", type |-> user_rule.type])
       ELSE LET condition == ConditionParser_parse(user_rule.type, user_rule.condition)
            IN IF ~condition.ok
               THEN Err([kind |-> "DslError", condition |-> user_rule.condition,
                         cause |-> condition.err])
               ELSE Ok(<<payload_discriminant.val,
                         [name |-> user_rule.type, condition |-> condition.val]>>)

parse_rule(user_rule) ==
    LET payload_discriminant == PayloadDiscriminant_from_str(user_rule.type)
    IN IF ~payload_discriminant.ok
       THEN Err([kind |-> "PayloadTypeNotFound", type |-> user_rule.type])
       ELSE LET condition == ConditionParser_parse(user_rule.type, user_rule.condition)
            IN IF ~condition.ok
               THEN Err([kind |-> "DslError", condition |-> user_rule.condition,
                         cause |-> condition.err])
               ELSE Ok(<<payload_discriminant.val,
                         [name |-> user_rule.name, condition |-> condition.val]>>)

\* m.insert(k, vec![v]): a later rule of a key replaces the earlier ones
EntryPush_insert(m, k, v) ==
    IF k \in DOMAIN m THEN [m EXCEPT ![k] = <<v>>] ELSE m @@ (k :> <<v>>)

\* m.entry(k).or_insert_with(Vec::new).insert(0, v): the latest rule comes first
EntryPush_front(m, k, v) ==
    IF k \in DOMAIN m THEN [m EXCEPT ![k] = <<v>> \o @] ELSE m @@ (k :> <<v>>)

\* m.entry(k).or_insert_with(Vec::new).push(v)
EntryPush(m, k, v) ==
    IF k \in DOMAIN m THEN [m EXCEPT ![k] = Append(@, v)] ELSE m @@ (k :> <<v>>)

RECURSIVE GroupRules(_, _)
GroupRules(pairs, m) ==
    IF pairs = <<>> THEN m
    ELSE GroupRules(Tail(pairs), EntryPush(m, Head(pairs)[1], Head(pairs)[2]))

parse_rules(user_rules) ==
    LET compiled == CollectResults(Map(parse_rule, user_rules))
    IN IF ~compiled.ok THEN compiled ELSE Ok(GroupRules(compiled.val, <<>>))

\* validatron Ruleset::from_rules: every rule's operator must be supported by the
\* type of the field it reads; the rules are kept in order
Ruleset_from_rules(rs) ==
    IF \E i \in DOMAIN rs :
          /\ rs[i].condition.op # "Equals"
          /\ PayloadFields[rs[i].condition.field_path[2].variant_name]
                          [rs[i].condition.field_path[2].field_name] = "string"
    THEN Err("unsupported operator")
    ELSE Ok([rules |-> rs])

\* the loop of new building a ruleset for every event type, with or without rules
BuildRulesets_every_key(groups, order, rulesets) ==
    IF \E k \in DOMAIN groups : ~Ruleset_from_rules(groups[k]).ok
    THEN Err([kind |-> "RuleCompile", error |-> "unsupported operator"])
    ELSE Ok([k \in PayloadDiscriminants |->
               [rules |-> IF k \in DOMAIN groups THEN groups[k] ELSE <<>>]])

\* the loop of new over the grouped rules, visited in `order`
RECURSIVE BuildRulesets(_, _, _)
BuildRulesets(groups, order, rulesets) ==
    IF order = <<>> THEN Ok(rulesets)
    ELSE LET discriminant == Head(order)
         IN IF discriminant \notin DOMAIN groups
            THEN BuildRulesets(groups, Tail(order), rulesets)
            ELSE LET ruleset == Ruleset_from_rules(groups[discriminant])
                 IN IF ~ruleset.ok
                    THEN Err([kind |-> "RuleCompile", error |-> ruleset.err])
                    ELSE IF discriminant \in DOMAIN rulesets
                    THEN Err([kind |-> "unreachable"])
                    ELSE BuildRulesets(groups, Tail(order),
                                       rulesets @@ (discriminant :> ruleset.val))

\* PulsarEngine::new, with its locals
PulsarEngine_new(path, order) ==
    LET raw == load_user_rules_from_dir(path)
        grouped == IF raw.ok THEN parse_rules(raw.val) ELSE NotReached
        built == IF ~raw.ok THEN raw
                 ELSE IF ~grouped.ok THEN grouped
                 ELSE BuildRulesets(grouped.val, order, <<>>)
    IN [raw_rules |-> raw, rules |-> grouped, engine |-> built]

----------------------------------------------------------------------------
(* Spec: constructing the engine *)

NoPath == [pattern_ok |-> TRUE, entries |-> <<>>]

IdleRun ==
    /\ queue = <<>> /\ emitted = <<>> /\ step = None /\ originals = 0

IdleNet ==
    /\ conv = None /\ net_event = None /\ delivered = <<>>

\* a sensor task that has received nothing yet
IdleProducer ==
    [taken |-> 0, pending |-> <<>>, calls |-> <<>>, out |-> <<>>, done |-> None]

Producers == {"sensor1", "sensor2"}

IdlePipe ==
    /\ producers = [p \in Producers |-> IdleProducer]

\* syscall_monitor_task when the module framework has just spawned it
TaskSpawned ==
    [pc |-> "program", lsm |-> None, builder |-> <<>>, attached |-> <<>>,
     reading |-> FALSE, program_result |-> None, shutdown |-> FALSE,
     result |-> None]

IdleTask ==
    /\ task = TaskSpawned

Init ==
    /\ rules_path = NoPath
    /\ raw_rules = NotReached /\ rules = NotReached /\ engine = NotReached
    /\ IdleRun /\ IdleNet /\ IdlePipe /\ IdleTask

NewEngine ==
    /\ engine = NotReached
    /\ \E path \in Directories, order \in KeyOrders :
         LET r == PulsarEngine_new(path, order)
         IN /\ rules_path' = path
            /\ raw_rules' = r.raw_rules
            /\ rules' = r.rules
            /\ engine' = r.engine
    /\ UNCHANGED <<runVars, netVars, pipeVars, taskVars>>

Next == NewEngine

Spec == Init /\ [][Next]_vars

----------------------------------------------------------------------------
(* Events and matching *)

ExecPayload(f) == [variant |-> "Exec", fields |-> [filename |-> f]]
BindPayload(a) == [variant |-> "Bind", fields |-> [address |-> a]]
ConnectPayload(a) == [variant |-> "Connect", fields |-> [destination |-> a]]

Payloads ==
    { ExecPayload("/usr/bin/nc"), ExecPayload("/bin/ls"),
      BindPayload("0.0.0.0:80"), ConnectPayload("10.0.0.1:22") }

\* a threat marker set by another module
ExternalThreat == [source |-> "other-module", rule_name |-> ""]

\* Event: the header (its id and optional threat marker) and the payload
Event(i, t, p) == [id |-> i, threat |-> t, payload |-> p]

\* PayloadDiscriminant::from(event.payload())
PayloadDiscriminant_from(payload) == payload.variant

\* validatron: a compiled condition evaluated on an event
Condition_eval(condition, event) ==
    LET f == condition.field_path[2]
    IN /\ condition.field_path[1].field_name = "payload"
       /\ event.payload.variant = f.variant_name
       /\ f.field_name \in DOMAIN event.payload.fields
       /\ condition.op = "Equals"
       /\ event.payload.fields[f.field_name] = condition.value

\* validatron Ruleset::matches: the rules whose condition holds, in ruleset order
Ruleset_matches(ruleset, event) ==
    SelectSeq(ruleset.rules, LAMBDA r : Condition_eval(r.condition, event))

\* ModuleSender::send_threat_derived(event, rule_name, None)
send_threat_derived(event, rule_name) ==
    [source |-> event, rule_name |-> rule_name]

\* the derived event the bus carries for one send_threat_derived call: the
\* triggering event's header and payload, with the threat marker set
DerivedEvent(sent) ==
    Event(sent.source.id,
          Some([source |-> "rules-engine", rule_name |-> sent.rule_name]),
          sent.source.payload)

NoEffect == [evaluated |-> <<>>, sent |-> <<>>]

\* what process does once the threat marker is known to be absent
EvaluateAndSend(rulesets, event) ==
    LET discriminant == PayloadDiscriminant_from(event.payload)
    IN IF discriminant \in DOMAIN rulesets
       THEN LET ruleset == rulesets[discriminant]
                name(r) == send_threat_derived(event, r.name)
            IN [evaluated |-> ruleset.rules,
                sent |-> Map(name, Ruleset_matches(ruleset, event))]
       ELSE NoEffect

\* process with the threat-marker test inverted (is_some for is_none)
process_marker_inverted(rulesets, event) ==
    IF event.threat # None THEN EvaluateAndSend(rulesets, event) ELSE NoEffect

\* process without the threat-marker test
process_unguarded(rulesets, event) == EvaluateAndSend(rulesets, event)

\* process that stops at the first matching rule
process_first_match(rulesets, event) ==
    LET r == IF event.threat = None THEN EvaluateAndSend(rulesets, event) ELSE NoEffect
    IN [evaluated |-> r.evaluated,
        sent |-> IF r.sent = <<>> THEN <<>> ELSE <<r.sent[1]>>]

\* process that falls back to every ruleset when the key has none
process_fallback(rulesets, event) ==
    IF event.threat # None THEN NoEffect
    ELSE IF PayloadDiscriminant_from(event.payload) \in DOMAIN rulesets
    THEN EvaluateAndSend(rulesets, event)
    ELSE IF DOMAIN rulesets = {} THEN NoEffect
    ELSE LET ruleset == rulesets[CHOOSE k \in DOMAIN rulesets : TRUE]
             name(r) == send_threat_derived(event, r.name)
         IN [evaluated |-> ruleset.rules,
             sent |-> Map(name, Ruleset_matches(ruleset, event))]

\* process that runs the rules of every ruleset on the event, whatever its type
process_every_ruleset(rulesets, event) ==
    IF event.threat = None
    THEN LET keys == <<"Exec", "Bind", "Connect">>
             all == Flatten([i \in DOMAIN keys |->
                               IF keys[i] \in DOMAIN rulesets
                               THEN rulesets[keys[i]].rules ELSE <<>>])
             name(r) == send_threat_derived(event, r.name)
         IN [evaluated |-> all,
             sent |-> Map(name, Ruleset_matches([rules |-> all], event))]
    ELSE NoEffect

\* PulsarEngine::process: the rules its call of matches evaluates and the
\* send_threat_derived calls it makes
PulsarEngine_process(rulesets, event) ==
    IF event.threat = None
    THEN LET discriminant == PayloadDiscriminant_from(event.payload)
         IN IF discriminant \in DOMAIN rulesets
            THEN LET ruleset == rulesets[discriminant]
                     name(r) == send_threat_derived(event, r.name)
                 IN [evaluated |-> ruleset.rules,
                     sent |-> Map(name, Ruleset_matches(ruleset, event))]
            ELSE NoEffect
    ELSE NoEffect

----------------------------------------------------------------------------
(* SpecRun: a constructed engine receiving events from the bus *)

\* rule directories of one well-formed file
RunDirectories ==
    {d \in Directories :
        d.pattern_ok /\ Len(d.entries) = 1 /\ d.entries[1].kind = "Rules"}

InitRun ==
    /\ \E path \in RunDirectories, order \in KeyOrders :
         LET r == PulsarEngine_new(path, order)
         IN /\ r.engine.ok
            /\ rules_path = path
            /\ raw_rules = r.raw_rules
            /\ rules = r.rules
            /\ engine = r.engine
    /\ IdleRun /\ IdleNet /\ IdlePipe /\ IdleTask

\* a sensor, or another module, puts an event on the bus
Observe ==
    /\ originals < MaxOriginals
    /\ \E p \in Payloads, t \in {None, Some(ExternalThreat)} :
         queue' = Append(queue, Event(originals + 1, t, p))
    /\ originals' = originals + 1
    /\ UNCHANGED <<loadVars, emitted, step, netVars, pipeVars, taskVars>>

\* the engine's module loop hands the next event of the bus to process; every
\* derived threat event it sends is delivered on the same bus
Process ==
    /\ queue # <<>>
    /\ Len(emitted) <= MaxOriginals * MaxRules
    /\ LET event == Head(queue)
           r == PulsarEngine_process(engine.val, event)
       IN /\ emitted' = emitted \o r.sent
          /\ queue' = Tail(queue) \o Map(DerivedEvent, r.sent)
          /\ step' = Some([event |-> event, evaluated |-> r.evaluated,
                           sent |-> r.sent])
    /\ UNCHANGED <<loadVars, originals, netVars, pipeVars, taskVars>>

NextRun == Observe \/ Process

SpecRun == InitRun /\ [][NextRun]_vars

\* the module loop keeps receiving while events are pending
LiveRun == SpecRun /\ WF_vars(Process)

----------------------------------------------------------------------------
(* network-monitor: socket addresses *)

\* capacity of the capture buffer of a Send or Receive record
MAX_DATA_SIZE == 4096

\* a u32 as two 16-bit halves
U32(h, l) == [hi |-> h, lo |-> l]

\* u32 >> n, for 0 < n < 32
Shr(v, n) ==
    IF n >= 16
    THEN U32(0, v.hi \div (2 ^ (n - 16)))
    ELSE U32(v.hi \div (2 ^ n), (v.hi % (2 ^ n)) * (2 ^ (16 - n)) + v.lo \div (2 ^ n))

\* u32 as u8
AsU8(v) == v.lo % 256

\* u32::swap_bytes and u16::swap_bytes
SwapBytes32(v) ==
    U32((v.lo % 256) * 256 + v.lo \div 256, (v.hi % 256) * 256 + v.hi \div 256)
SwapBytes16(x) == (x % 256) * 256 + x \div 256

\* u32::from_ne_bytes on a host of the given endianness
FromNeBytes(b, endian) ==
    IF endian = "big"
    THEN U32(b[1] * 256 + b[2], b[3] * 256 + b[4])
    ELSE U32(b[4] * 256 + b[3], b[2] * 256 + b[1])

\* u32::from_be, u16::from_be and u16::to_be
FromBe32(v, endian) == IF endian = "big" THEN v ELSE SwapBytes32(v)
FromBe16(x, endian) == IF endian = "big" THEN x ELSE SwapBytes16(x)
ToBe16(x, endian) == IF endian = "big" THEN x ELSE SwapBytes16(x)

Endians == {"little", "big"}

SocketAddrV4(ip, port) == [family |-> "V4", ip |-> ip, port |-> port]
SocketAddrV6(ip, port, flowinfo, scope_id) ==
    [family |-> "V6", ip |-> ip, port |-> port,
     flowinfo |-> flowinfo, scope_id |-> scope_id]

Ports == {0, 53, 65535}
V4Ips == [1..4 -> {0, 127, 255}]
V6Ips == { [i \in 1..16 |-> IF i = 16 THEN 1 ELSE 0],
           [i \in 1..16 |-> IF i = 1 THEN 254 ELSE IF i = 2 THEN 128
                            ELSE IF i = 16 THEN 1 ELSE 0],
           [i \in 1..16 |-> 255] }

\* the generic socket addresses (std::net::SocketAddr) of the model
SocketAddrs ==
    {SocketAddrV4(ip, p) : ip \in V4Ips, p \in Ports}
    \cup {SocketAddrV6(ip, p, f, s) : ip \in V6Ips, p \in Ports, f \in {0, 1}, s \in {0, 2}}

\* From<SocketAddr> for Addr: the SockaddrIn or SockaddrIn6 built from it
Addr_from(value, endian) ==
    IF value.family = "V4"
    THEN [family |-> "V4",
          sin_port |-> ToBe16(value.port, endian),
          s_addr |-> FromNeBytes(value.ip, endian)]
    ELSE [family |-> "V6",
          sin6_port |-> ToBe16(value.port, endian),
          sin6_addr |-> value.ip,
          sin6_flowinfo |-> value.flowinfo,
          sin6_scope_id |-> value.scope_id]

\* SocketAddr::new(ip, port) for an IPv6 ip: flowinfo and scope_id are zero
SocketAddr_new_v6(ip, port) == SocketAddrV6(ip, port, 0, 0)

\* From<Addr> for SocketAddr that lists the octets of an IPv4 address from the
\* low byte up
SocketAddr_from_low_octet_first(value, endian) ==
    IF value.family = "V4"
    THEN LET bits == FromBe32(value.s_addr, endian)
             octects == << AsU8(bits), AsU8(Shr(bits, 8)),
                           AsU8(Shr(bits, 16)), AsU8(Shr(bits, 24)) >>
         IN SocketAddrV4(octects, FromBe16(value.sin_port, endian))
    ELSE SocketAddr_new_v6(value.sin6_addr, FromBe16(value.sin6_port, endian))

\* From<Addr> for SocketAddr
SocketAddr_from(value, endian) ==
    IF value.family = "V4"
    THEN LET bits == FromBe32(value.s_addr, endian)
             octects == << AsU8(Shr(bits, 24)), AsU8(Shr(bits, 16)),
                           AsU8(Shr(bits, 8)), AsU8(bits) >>
         IN SocketAddrV4(octects, FromBe16(value.sin_port, endian))
    ELSE SocketAddr_new_v6(value.sin6_addr, FromBe16(value.sin6_port, endian))

----------------------------------------------------------------------------
(* network-monitor: events *)

Pids == {0, 42}

\* the byte values of captured data
DataBytes == {0, 1, 2}

DataArrays == UNION {[1..n -> DataBytes] : n \in 0..MaxData}

\* reported lengths: the captured length, or more than the capture capacity
DataLens(data) == {Len(data), MAX_DATA_SIZE + 904}

\* the endpoints of the model's connections
Endpoints ==
    { <<SocketAddrV4(<<127, 0, 0, 1>>, 53), SocketAddrV4(<<127, 0, 0, 1>>, 65535)>>,
      <<SocketAddrV6([i \in 1..16 |-> IF i = 16 THEN 1 ELSE 0], 53, 0, 0),
        SocketAddrV6([i \in 1..16 |-> IF i = 16 THEN 1 ELSE 0], 65535, 0, 0)>> }

\* the Bind, Connect, Accept and Close records of a connection, on a host of the
\* given endianness
SocketRecords(ep, endian) ==
    LET A(s) == Addr_from(s, endian)
    IN {[kind |-> "Bind", addr |-> A(ep[2])],
        [kind |-> "Connect", dst |-> A(ep[2])],
        [kind |-> "Accept", src |-> A(ep[1]), dst |-> A(ep[2])]}
       \cup {[kind |-> "Close", original_pid |-> op, src |-> A(ep[1]), dst |-> A(ep[2])]
             : op \in Pids}

\* a Send or Receive record of a connection
MessageRecord(kind, ep, data, data_len, proto, endian) ==
    [kind |-> kind, src |-> Addr_from(ep[1], endian), dst |-> Addr_from(ep[2], endian),
     data |-> data, data_len |-> data_len, proto |-> proto]

\* BpfEvent<NetworkEvent>: the record with the pid of the context the probe ran in
BpfEvent(pid, timestamp, payload) ==
    [pid |-> pid, timestamp |-> timestamp, payload |-> payload]

\* From<NetworkEvent> for Payload with the length of a message taken from the
\* captured buffer
Payload_from_captured_len(data, endian) ==
    LET into(a) == SocketAddr_from(a, endian)
    IN CASE data.kind = "Bind" ->
              [variant |-> "Bind", address |-> into(data.addr)]
         [] data.kind = "Connect" ->
              [variant |-> "Connect", destination |-> into(data.dst)]
         [] data.kind = "Accept" ->
              [variant |-> "Accept", source |-> into(data.src),
               destination |-> into(data.dst)]
         [] data.kind \in {"Send", "Receive"} ->
              [variant |-> data.kind, source |-> into(data.src),
               destination |-> into(data.dst), len |-> Len(data.data),
               is_tcp |-> (data.proto = "TCP")]
         [] data.kind = "Close" ->
              [variant |-> "Close", source |-> into(data.src),
               destination |-> into(data.dst)]

\* From<NetworkEvent> for Payload
Payload_from(data, endian) ==
    LET into(a) == SocketAddr_from(a, endian)
    IN CASE data.kind = "Bind" ->
              [variant |-> "Bind", address |-> into(data.addr)]
         [] data.kind = "Connect" ->
              [variant |-> "Connect", destination |-> into(data.dst)]
         [] data.kind = "Accept" ->
              [variant |-> "Accept", source |-> into(data.src),
               destination |-> into(data.dst)]
         [] data.kind = "Send" ->
              [variant |-> "Send", source |-> into(data.src),
               destination |-> into(data.dst), len |-> data.data_len,
               is_tcp |-> (data.proto = "TCP")]
         [] data.kind = "Receive" ->
              [variant |-> "Receive", source |-> into(data.src),
               destination |-> into(data.dst), len |-> data.data_len,
               is_tcp |-> (data.proto = "TCP")]
         [] data.kind = "Close" ->
              [variant |-> "Close", source |-> into(data.src),
               destination |-> into(data.dst)]

\* dns_parser::Packet::parse on the model's wire format: the two counts, then one
\* byte per question (its name) and two per answer (its name and ttl)
Packet_parse(data) ==
    IF Len(data) < 2 \/ Len(data) # 2 + data[1] + 2 * data[2]
    THEN Err("not dns")
    ELSE Ok([questions |-> [i \in 1..data[1] |-> [qname |-> data[2 + i]]],
             answers |-> [i \in 1..data[2] |->
                            [name |-> data[2 + data[1] + 2 * i - 1],
                             ttl |-> data[2 + data[1] + 2 * i]]]])

\* format!("{}", name) of a parsed name
FormatName(code) == <<"name", code>>

DnsQuestion(q) == [name |-> FormatName(q.qname), qtype |-> "A", qclass |-> "IN"]
DnsAnswer(a) == [name |-> FormatName(a.name), class |-> "IN", ttl |-> a.ttl,
                 data |-> "A"]

\* collect_dns_if_any that tests the questions alone before the answers
collect_dns_questions_first(event) ==
    IF event.payload.kind \notin {"Send", "Receive"} THEN None
    ELSE LET data == event.payload.data
             dns == Packet_parse(data)
         IN IF data = <<>> \/ ~dns.ok THEN None
            ELSE LET questions == Map(DnsQuestion, dns.val.questions)
                     answers == Map(DnsAnswer, dns.val.answers)
                 IN IF questions # <<>>
                    THEN Some([variant |-> "DnsQuery", questions |-> questions])
                    ELSE IF answers # <<>>
                    THEN Some([variant |-> "DnsResponse", answers |-> answers,
                               questions |-> questions])
                    ELSE None

\* collect_dns_if_any that reports a buffer it cannot parse as an empty query
collect_dns_unparsed_as_query(event) ==
    IF event.payload.kind \notin {"Send", "Receive"} THEN None
    ELSE LET data == event.payload.data
         IN IF data = <<>> THEN None
            ELSE LET dns == Packet_parse(data)
                 IN IF ~dns.ok
                    THEN Some([variant |-> "DnsQuery", questions |-> <<>>])
                    ELSE LET with_q == dns.val.questions # <<>>
                             with_a == dns.val.answers # <<>>
                             questions == Map(DnsQuestion, dns.val.questions)
                             answers == Map(DnsAnswer, dns.val.answers)
                         IN IF with_q /\ ~with_a
                            THEN Some([variant |-> "DnsQuery", questions |-> questions])
                            ELSE IF with_a
                            THEN Some([variant |-> "DnsResponse", answers |-> answers,
                                       questions |-> questions])
                            ELSE None

collect_dns_if_any(event) ==
    IF event.payload.kind \notin {"Send", "Receive"} THEN None
    ELSE LET data == event.payload.data
         IN IF data = <<>> THEN None
            ELSE LET dns == Packet_parse(data)
                 IN IF ~dns.ok THEN None
                    ELSE LET with_q == dns.val.questions # <<>>
                             with_a == dns.val.answers # <<>>
                             questions == Map(DnsQuestion, dns.val.questions)
                             answers == Map(DnsAnswer, dns.val.answers)
                         IN IF with_q /\ ~with_a
                            THEN Some([variant |-> "DnsQuery", questions |-> questions])
                            ELSE IF with_a
                            THEN Some([variant |-> "DnsResponse", answers |-> answers,
                                       questions |-> questions])
                            ELSE None

\* ModuleSender::send(pid, timestamp, payload): the event put on the bus
SentEvent(pid, timestamp, payload) ==
    [pid |-> pid, timestamp |-> timestamp, payload |-> payload]

\* BpfSenderWrapper::send with the closure of syscall_monitor_task: the DNS event,
\* if any, then the record itself converted to a Payload
BpfSenderWrapper_send(event, endian) ==
    LET dns_event == collect_dns_if_any(event)
        dns == IF dns_event = None THEN <<>>
               ELSE <<SentEvent(event.pid, event.timestamp, dns_event[1])>>
    IN dns \o <<SentEvent(event.pid, event.timestamp,
                           Payload_from(event.payload, endian))>>

----------------------------------------------------------------------------
(* SpecNet: the sensor's conversions and deliveries *)

InitNet ==
    /\ rules_path = NoPath
    /\ raw_rules = NotReached /\ rules = NotReached /\ engine = NotReached
    /\ IdleRun /\ IdleNet /\ IdlePipe /\ IdleTask

\* a generic socket address converted to Addr and back (one operation per run:
\* the sensor keeps no state between operations)
ConvertAddress ==
    /\ IdleNet
    /\ \E value \in SocketAddrs, endian \in Endians :
         conv' = Some([endian |-> endian, input |-> value,
                       addr |-> Addr_from(value, endian),
                       back |-> SocketAddr_from(Addr_from(value, endian), endian)])
    /\ UNCHANGED <<loadVars, runVars, net_event, delivered, pipeVars, taskVars>>

\* the sender of syscall_monitor_task is given one record
Deliver(event, endian) ==
    /\ net_event' = Some([endian |-> endian, event |-> event])
    /\ delivered' = BpfSenderWrapper_send(event, endian)

\* the event reader hands one kernel record to the sensor's sender
ReceiveRecord ==
    /\ IdleNet
    /\ \E endian \in Endians, pid \in Pids, ep \in Endpoints :
         \/ \E payload \in SocketRecords(ep, endian) :
               Deliver(BpfEvent(pid, 1, payload), endian)
         \/ \E kind \in {"Send", "Receive"}, data \in DataArrays, proto \in {"TCP", "UDP"} :
               \E data_len \in DataLens(data) :
                  Deliver(BpfEvent(pid, 1, MessageRecord(kind, ep, data, data_len,
                                                         proto, endian)), endian)
    /\ UNCHANGED <<loadVars, runVars, conv, pipeVars, taskVars>>

NextNet == ConvertAddress \/ ReceiveRecord

SpecNet == InitNet /\ [][NextNet]_vars

----------------------------------------------------------------------------
(* SpecPipe: sensor tasks handing what they send to one shared engine *)

\* Display of an IPv4 SocketAddr: "a.b.c.d:port"
Display(a) ==
    ToString(a.ip[1]) \o "." \o ToString(a.ip[2]) \o "." \o ToString(a.ip[3])
    \o "." \o ToString(a.ip[4]) \o ":" \o ToString(a.port)

\* the fields of a sensor payload as rule conditions read them
FieldsOf(payload) ==
    [f \in DOMAIN payload \ {"variant"} |->
        IF f \in {"address", "source", "destination"}
        THEN Display(payload[f]) ELSE payload[f]]

\* the Event of one ModuleSender::send: its header (the timestamp identifies it,
\* no threat marker) and its payload
EventOf(sent) ==
    Event(sent.timestamp, None,
          [variant |-> sent.payload.variant, fields |-> FieldsOf(sent.payload)])

\* the kernel records of the pipeline: a bind to 0.0.0.0:80, a connect, and a UDP
\* send of three bytes that parse as a DNS query
PipeRecords(endian) ==
    LET ep == <<SocketAddrV4(<<127, 0, 0, 1>>, 53), SocketAddrV4(<<127, 0, 0, 1>>, 65535)>>
    IN {[kind |-> "Bind", addr |-> Addr_from(SocketAddrV4(<<0, 0, 0, 0>>, 80), endian)],
        [kind |-> "Connect", dst |-> Addr_from(ep[2], endian)],
        MessageRecord("Send", ep, <<1, 0, 1>>, 3, "UDP", endian)}

\* rule directories of one well-formed file of rules on the sensor's event types
PipeDirectories ==
    {d \in RunDirectories :
        \A i \in DOMAIN d.entries[1].records : d.entries[1].records[i].type = "Bind"}

\* the rules process iterates over for an event: none for a marked event or a
\* type without ruleset
RulesFor(rulesets, event) ==
    IF event.threat = None /\ PayloadDiscriminant_from(event.payload) \in DOMAIN rulesets
    THEN rulesets[PayloadDiscriminant_from(event.payload)].rules
    ELSE <<>>

\* a call of process: its event, the next rule of the iteration, the sends made
Call(event) == [event |-> event, idx |-> 1, sent |-> <<>>]

\* the loop of process has run to its end
CallFinished(rulesets, call) == call.idx > Len(RulesFor(rulesets, call.event))

\* one iteration of process that reads the event from a slot shared by the
\* clones of the engine instead of its own argument
MatchStep_shared_event(rulesets, call) ==
    LET q == CHOOSE q \in Producers : producers[q].calls # <<>>
        shared == producers[q].calls[1].event
        rs == RulesFor(rulesets, shared)
    IN [call EXCEPT
          !.idx = @ + 1,
          !.sent = IF call.idx <= Len(rs) /\ Condition_eval(rs[call.idx].condition, shared)
                   THEN Append(@, send_threat_derived(shared, rs[call.idx].name))
                   ELSE @]

\* one iteration of the loop of process: the next rule is evaluated on the
\* event and, if it matches, send_threat_derived is called
MatchStep(rulesets, call) ==
    LET rule == RulesFor(rulesets, call.event)[call.idx]
    IN [call EXCEPT
          !.idx = @ + 1,
          !.sent = IF Condition_eval(rule.condition, call.event)
                   THEN Append(@, send_threat_derived(call.event, rule.name))
                   ELSE @]

\* process is not a synchronous call: the sender goes on while it runs
EngineDetached(t) == TRUE

\* process is a synchronous call: the sensor task goes on when it has returned
EngineReturned(t) == t.calls = <<>>

\* the sender of a sensor task can be handed the next record
ProducerReady(t) == t.pending = <<>> /\ EngineReturned(t)

\* an entry of a sensor task's output: what was emitted, and for which record
Emission(timestamp, what) == [timestamp |-> timestamp, what |-> what]

InitPipe ==
    /\ \E path \in PipeDirectories, order \in KeyOrders :
         LET r == PulsarEngine_new(path, order)
         IN /\ r.engine.ok
            /\ rules_path = path
            /\ raw_rules = r.raw_rules
            /\ rules = r.rules
            /\ engine = r.engine
    /\ IdleRun /\ IdleNet /\ IdlePipe /\ IdleTask

\* the event reader of sensor task p hands the next kernel record, stamped with
\* its rank in the stream, to the task's sender
DeliverRecord(p) ==
    /\ ProducerReady(producers[p])
    /\ producers[p].taken < MaxRecords
    /\ \E endian \in Endians :
         \E record \in PipeRecords(endian) :
            producers' = [producers EXCEPT
               ![p].taken = @ + 1,
               ![p].pending = BpfSenderWrapper_send(
                                 BpfEvent(42, producers[p].taken + 1, record), endian)]
    /\ UNCHANGED <<loadVars, runVars, netVars, taskVars>>

\* the next send of the sender: the event is emitted and process is called on it
SendEvent(p) ==
    /\ producers[p].pending # <<>>
    /\ EngineReturned(producers[p])
    /\ LET e == Head(producers[p].pending)
       IN producers' = [producers EXCEPT
            ![p].pending = Tail(@),
            ![p].out = Append(@, Emission(e.timestamp, e.payload.variant)),
            ![p].calls = Append(@, Call(EventOf(e)))]
    /\ UNCHANGED <<loadVars, runVars, netVars, taskVars>>

\* the call of process in sensor task p evaluates its next rule
MatchRule(p) ==
    /\ producers[p].calls # <<>>
    /\ ~CallFinished(engine.val, producers[p].calls[1])
    /\ LET call == producers[p].calls[1]
           next == MatchStep(engine.val, call)
       IN producers' = [producers EXCEPT
            ![p].calls = <<next>> \o Tail(@),
            ![p].out = IF next.sent # call.sent
                       THEN Append(@, Emission(next.sent[Len(next.sent)].source.id,
                                               "threat"))
                       ELSE @]
    /\ UNCHANGED <<loadVars, runVars, netVars, taskVars>>

\* the call of process in sensor task p returns
ReturnFromProcess(p) ==
    /\ producers[p].calls # <<>>
    /\ CallFinished(engine.val, producers[p].calls[1])
    /\ producers' = [producers EXCEPT
            ![p].calls = Tail(@),
            ![p].done = Some([event |-> producers[p].calls[1].event,
                              sent |-> producers[p].calls[1].sent])]
    /\ UNCHANGED <<loadVars, runVars, netVars, taskVars>>

NextPipe ==
    \E p \in Producers :
        DeliverRecord(p) \/ SendEvent(p) \/ MatchRule(p) \/ ReturnFromProcess(p)

SpecPipe == InitPipe /\ [][NextPipe]_vars

----------------------------------------------------------------------------

(* SpecTask: syscall_monitor_task, from probe attachment to shutdown *)

Hook(kind, name) == [kind |-> kind, name |-> name]

\* the tracepoints and the kprobe that program always adds to the builder
CommonHooks ==
    << Hook("tracepoint", "sys_exit_accept4"), Hook("tracepoint", "sys_exit_accept"),
       Hook("tracepoint", "sys_exit_recvmsg"), Hook("tracepoint", "sys_exit_recvmmsg"),
       Hook("tracepoint", "sys_enter_recvfrom"), Hook("tracepoint", "sys_exit_recvfrom"),
       Hook("tracepoint", "sys_exit_read"), Hook("tracepoint", "sys_exit_readv"),
       Hook("kprobe", "tcp_set_state") >>

LsmHooks ==
    << Hook("lsm", "socket_bind"), Hook("lsm", "socket_connect"),
       Hook("lsm", "socket_accept"), Hook("lsm", "socket_sendmsg"),
       Hook("lsm", "socket_recvmsg") >>

SecurityKprobes ==
    << Hook("kprobe", "security_socket_bind"), Hook("kprobe", "security_socket_connect"),
       Hook("kprobe", "security_socket_accept"), Hook("kprobe", "security_socket_sendmsg"),
       Hook("kprobe", "security_socket_recvmsg") >>

\* the branch on lsm_supported that adds the kprobes besides the LSM hooks
HookGroup_both(lsm) ==
    IF lsm THEN LsmHooks \o SecurityKprobes ELSE SecurityKprobes

\* the branch of program on lsm_supported: the hooks added to the builder
HookGroup(lsm) ==
    IF lsm THEN LsmHooks ELSE SecurityKprobes

\* why the kernel refuses a probe
StartErrors == {"unsupported", "permission denied"}

ProgramError(kind, what) == [kind |-> kind, what |-> what]

\* the task going on to wait for shutdown whatever program returned
TaskAfterProgram_ignore_error(t, r) ==
    [t EXCEPT !.program_result = Some(r), !.pc = "shutdown_recv"]

\* `let _program = program(..).await?;` of syscall_monitor_task: an error of
\* program is returned by the task, otherwise the task goes on to shutdown.recv
TaskAfterProgram(t, r) ==
    IF r.ok
    THEN [t EXCEPT !.program_result = Some(r), !.pc = "shutdown_recv"]
    ELSE [t EXCEPT !.program_result = Some(r), !.pc = "returned",
                   !.result = Some(Err(r.err))]

\* a Program that is dropped detaches its probes and stops its reader
ProgramDropped(t) == [t EXCEPT !.attached = <<>>, !.reading = FALSE]

\* a shutdown.recv that never completes
ShutdownRecv_pending(t) == t

\* shutdown.recv completed: the task returns a clean exit, dropping _program
ShutdownRecv(t) ==
    [ProgramDropped(t) EXCEPT !.pc = "returned", !.result = Some(Ok("CleanExit"))]

InitTask ==
    /\ rules_path = NoPath
    /\ raw_rules = NotReached /\ rules = NotReached /\ engine = NotReached
    /\ IdleRun /\ IdleNet /\ IdlePipe /\ IdleTask

\* ProgramBuilder::new with the tracepoints and the tcp_set_state kprobe
NewBuilder ==
    /\ task.pc = "program"
    /\ task' = [task EXCEPT !.builder = CommonHooks, !.pc = "lsm_supported"]
    /\ UNCHANGED <<loadVars, runVars, netVars, pipeVars>>

\* lsm_supported().await and the branch on its answer
LsmSupported ==
    /\ task.pc = "lsm_supported"
    /\ \E lsm \in BOOLEAN :
         task' = [task EXCEPT !.lsm = Some(lsm), !.builder = @ \o HookGroup(lsm),
                              !.pc = "start"]
    /\ UNCHANGED <<loadVars, runVars, netVars, pipeVars>>

\* builder.start(): the next probe of the builder is attached
AttachProbe ==
    /\ task.pc = "start"
    /\ Len(task.attached) < Len(task.builder)
    /\ task' = [task EXCEPT !.attached = Append(@, task.builder[Len(@) + 1])]
    /\ UNCHANGED <<loadVars, runVars, netVars, pipeVars>>

\* builder.start(): the next probe is refused; start fails and program returns
\* the error
StartFails ==
    /\ task.pc = "start"
    /\ Len(task.attached) < Len(task.builder)
    /\ \E e \in StartErrors :
         task' = TaskAfterProgram(
                    ProgramDropped(task),
                    Err(ProgramError(e, task.builder[Len(task.attached) + 1].name)))
    /\ UNCHANGED <<loadVars, runVars, netVars, pipeVars>>

\* builder.start() returned the Program: every probe is attached
Started ==
    /\ task.pc = "start"
    /\ Len(task.attached) = Len(task.builder)
    /\ task' = [task EXCEPT !.pc = "read_events"]
    /\ UNCHANGED <<loadVars, runVars, netVars, pipeVars>>

\* program.read_events("events", sender) succeeds and program returns Ok
ReadEvents ==
    /\ task.pc = "read_events"
    /\ task' = TaskAfterProgram([task EXCEPT !.reading = TRUE], Ok("Program"))
    /\ UNCHANGED <<loadVars, runVars, netVars, pipeVars>>

\* program.read_events fails and program returns the error
ReadEventsFails ==
    /\ task.pc = "read_events"
    /\ task' = TaskAfterProgram(ProgramDropped(task),
                                Err(ProgramError("map error", "events")))
    /\ UNCHANGED <<loadVars, runVars, netVars, pipeVars>>

\* the module framework delivers the shutdown signal
SignalShutdown ==
    /\ ~task.shutdown
    /\ task' = [task EXCEPT !.shutdown = TRUE]
    /\ UNCHANGED <<loadVars, runVars, netVars, pipeVars>>

\* shutdown.recv().await completes once the signal has been delivered
AwaitShutdown ==
    /\ task.pc = "shutdown_recv"
    /\ task.shutdown
    /\ task' = ShutdownRecv(task)
    /\ UNCHANGED <<loadVars, runVars, netVars, pipeVars>>

\* the steps of the task itself
TaskStep ==
    \/ NewBuilder \/ LsmSupported \/ AttachProbe \/ StartFails \/ Started
    \/ ReadEvents \/ ReadEventsFails \/ AwaitShutdown

NextTask == TaskStep \/ SignalShutdown

SpecTask == InitTask /\ [][NextTask]_vars

\* the runtime keeps polling the task, and what it awaits completes
LiveTask == SpecTask /\ WF_vars(TaskStep)

----------------------------------------------------------------------------

(* Claims about PulsarEngine::process (SpecRun, LiveRun) *)

LastStep == step[1]

\* the indices of the rules of `ruleset` whose predicate holds on `event`
MatchedIndices(ruleset, event) ==
    {i \in DOMAIN ruleset.rules : Condition_eval(ruleset.rules[i].condition, event)}

\* the number of rules of the engine that the payload of `event` satisfies
MatchCount(event) ==
    LET d == PayloadDiscriminant_from(event.payload)
    IN IF d \in DOMAIN engine.val
       THEN Cardinality(MatchedIndices(engine.val[d], event))
       ELSE 0

\* C1: Loop prevention. For an event whose header carries a threat marker,
\* process evaluates no rule predicate and makes no send_threat_derived call,
\* whatever the rulesets are.
C1_LoopPrevention ==
    (step # None /\ LastStep.event.threat # None)
        => (LastStep.evaluated = <<>> /\ LastStep.sent = <<>>)

\* C1 witness: a marked event was processed although a rule of its own type
\* group is satisfied by its payload.
C1_Witness ==
    /\ step # None
    /\ LastStep.event.threat # None
    /\ MatchCount(LastStep.event) > 0

\* C2: Multiplicity. For an event without a threat marker that satisfies K rules
\* of the ruleset of its type, one call of process makes exactly K
\* send_threat_derived calls, each for the event itself and each naming a
\* different one of the K matched rules; with K = 0 it makes none.
C2_Multiplicity ==
    (/\ step # None
     /\ LastStep.event.threat = None
     /\ PayloadDiscriminant_from(LastStep.event.payload) \in DOMAIN engine.val)
        => LET e == LastStep.event
               ruleset == engine.val[PayloadDiscriminant_from(e.payload)]
               matched == MatchedIndices(ruleset, e)
               K == Cardinality(matched)
               sent == LastStep.sent
           IN /\ Len(sent) = K
              /\ \A j \in 1..Len(sent) : sent[j].source = e
              /\ \E f \in [1..K -> matched] :
                    /\ \A i, j \in 1..K : i # j => f[i] # f[j]
                    /\ \A j \in 1..K : sent[j].rule_name = ruleset.rules[f[j]].name

\* C2 witness: an unmarked event satisfied two rules of its group and two
\* emissions were made.
C2_Witness ==
    /\ step # None
    /\ LastStep.event.threat = None
    /\ MatchCount(LastStep.event) >= 2
    /\ Len(LastStep.sent) >= 2

\* C2 witness of the K = 0 case: an Exec event with filename /bin/ls against the
\* "Open netcat" rule.
C2_WitnessNone ==
    /\ step # None
    /\ LastStep.event = Event(LastStep.event.id, None, ExecPayload("/bin/ls"))
    /\ "Exec" \in DOMAIN engine.val
    /\ \E i \in DOMAIN engine.val["Exec"].rules :
          engine.val["Exec"].rules[i].name = "Open netcat"
    /\ LastStep.sent = <<>>

\* the send_threat_derived calls caused, directly or not, by original event i
DerivedOf(i) == SelectSeq(emitted, LAMBDA m : m.source.id = i)

DerivedBounded ==
    \A k \in DOMAIN emitted :
        Len(DerivedOf(emitted[k].source.id)) <= MatchCount(emitted[k].source)

\* C3: No retrigger loop. With every derived threat event delivered back to
\* process, the derived events caused by one original event never outnumber the
\* rules it matched, and pending events are always eventually all consumed.
C3_NoRetriggerLoop ==
    /\ []DerivedBounded
    /\ (queue # <<>>) ~> (queue = <<>>)

\* C3 witness: a derived threat event of a rule that its own payload satisfies
\* came back to process and the bus is idle again.
C3_Witness ==
    /\ step # None
    /\ LastStep.event.threat # None
    /\ LastStep.event.threat # Some(ExternalThreat)
    /\ MatchCount(LastStep.event) > 0
    /\ emitted # <<>>
    /\ queue = <<>>

\* C7: An unmarked event whose event-type key has no ruleset passes through
\* process with no side effect: nothing is evaluated or emitted, only the event
\* itself leaves the bus, and the engine is unchanged.
C7_NoRulesetNoEffect ==
    [][(/\ originals' = originals
        /\ queue # <<>>
        /\ Head(queue).threat = None
        /\ PayloadDiscriminant_from(Head(queue).payload) \notin DOMAIN engine.val)
          => /\ emitted' = emitted
             /\ queue' = Tail(queue)
             /\ step'[1].event = Head(queue)
             /\ step'[1].evaluated = <<>>
             /\ step'[1].sent = <<>>
             /\ engine' = engine]_vars

\* C7 witness: the engine holds rules, and an unmarked event of a type without a
\* ruleset was processed.
C7_Witness ==
    /\ step # None
    /\ LastStep.event.threat = None
    /\ PayloadDiscriminant_from(LastStep.event.payload) \notin DOMAIN engine.val
    /\ DOMAIN engine.val # {}

----------------------------------------------------------------------------
(* Claims about PulsarEngine::new (Spec) *)

Constructed == engine # NotReached

\* every user rule written in the files of the directory
RulesIn(path) ==
    Flatten([i \in DOMAIN path.entries |-> path.entries[i].records])

\* one of the steps of construction fails on this directory: listing it, an item
\* of the listing, reading or parsing a file, resolving the type or compiling
\* the condition of a rule, or building the ruleset of a rule
SomeStepFails(path) ==
    \/ ~path.pattern_ok
    \/ \E i \in DOMAIN path.entries :
          path.entries[i].kind \in {"GlobError", "Unreadable", "Malformed"}
    \/ \E i \in DOMAIN RulesIn(path) :
          LET r == parse_rule(RulesIn(path)[i])
          IN ~r.ok \/ ~Ruleset_from_rules(<<r.val[2]>>).ok

\* C4 (as claimed): construction is all-or-nothing: when any step fails for any
\* directory entry, file or rule, new returns an error and no engine.
C4_AllOrNothing ==
    (Constructed /\ SomeStepFails(rules_path)) => ~engine.ok

\* C5: a rule whose type string is no supported event-type key compiles to
\* PayloadTypeNotFound carrying that string, whatever its condition; when it is
\* the first rule that fails to compile, that is the error parse_rules and new
\* return.
C5_UnknownTypeError ==
    raw_rules.ok =>
        \A i \in DOMAIN raw_rules.val :
            LET r == raw_rules.val[i]
                e == Err([kind |-> "PayloadTypeNotFound", type |-> r.type])
            IN r.type \notin PayloadDiscriminants =>
                  /\ parse_rule(r) = e
                  /\ (\A j \in 1..(i - 1) : parse_rule(raw_rules.val[j]).ok)
                        => (rules = e /\ engine = e)

\* C5 witness: a loaded rule has an unsupported type and a condition that does
\* not parse, and construction failed with PayloadTypeNotFound.
C5_Witness ==
    /\ raw_rules.ok
    /\ \E i \in DOMAIN raw_rules.val :
          /\ raw_rules.val[i].type \notin PayloadDiscriminants
          /\ ~ConditionParser_parse("Exec", raw_rules.val[i].condition).ok
    /\ ~engine.ok
    /\ engine.err.kind = "PayloadTypeNotFound"

\* how often x occurs in the sequence s
Count(s, x) == Cardinality({i \in DOMAIN s : s[i] = x})

\* C6: Grouping is exact. After parse_rules succeeds, for every key and every
\* compiled rule, the group of the key holds the rule as often as the input
\* holds a rule that compiles to it under that key; groups exist only for
\* supported keys and none is empty.
C6_GroupingExact ==
    (raw_rules.ok /\ rules.ok) =>
        LET compiled == [i \in DOMAIN raw_rules.val |-> parse_rule(raw_rules.val[i]).val]
            groups == rules.val
            group(k) == IF k \in DOMAIN groups THEN groups[k] ELSE <<>>
            known == {compiled[i][2] : i \in DOMAIN compiled}
                     \cup UNION {{groups[k][j] : j \in DOMAIN groups[k]} : k \in DOMAIN groups}
        IN /\ DOMAIN groups \subseteq PayloadDiscriminants
           /\ \A k \in DOMAIN groups : groups[k] # <<>>
           /\ \A i \in DOMAIN compiled : compiled[i][1] = raw_rules.val[i].type
           /\ \A k \in PayloadDiscriminants, c \in known :
                 Count(group(k), c) = Count(compiled, <<k, c>>)

\* C6 witness: two rules were grouped under one key.
C6_Witness ==
    /\ raw_rules.ok /\ rules.ok
    /\ \E k \in DOMAIN rules.val : Len(rules.val[k]) = 2

----------------------------------------------------------------------------
(* Claims about the network monitor (SpecNet) *)

\* C8 (as claimed): a generic socket address converted to Addr and back is the
\* address itself, IPv4 or IPv6, in every component.
C8_AddressRoundTrip ==
    conv # None => conv[1].back = conv[1].input

\* the part of C8 the code keeps: the family, the ip and the port come back
C8_IpAndPortRoundTrip ==
    conv # None =>
        /\ conv[1].back.family = conv[1].input.family
        /\ conv[1].back.ip = conv[1].input.ip
        /\ conv[1].back.port = conv[1].input.port

\* the DNS events among the events delivered for the last record
DnsDelivered ==
    SelectSeq(delivered, LAMBDA e : e.payload.variant \in {"DnsQuery", "DnsResponse"})

\* the last record is a Send or Receive whose captured bytes parse as DNS
ParsedDns ==
    /\ net_event # None
    /\ net_event[1].event.payload.kind \in {"Send", "Receive"}
    /\ net_event[1].event.payload.data # <<>>
    /\ Packet_parse(net_event[1].event.payload.data).ok

\* C9: for a captured buffer that parses as DNS, with questions and no answers
\* exactly one DnsQuery carrying every question in order is produced; with at
\* least one answer exactly one DnsResponse carrying every answer and every
\* question (possibly none); with neither, nothing; never a query and a response
\* for one buffer.
C9_DnsClassification ==
    ParsedDns =>
        LET ev == net_event[1].event
            pkt == Packet_parse(ev.payload.data).val
            nq == ev.payload.data[1]
            na == ev.payload.data[2]
            qs == [i \in 1..nq |-> DnsQuestion(pkt.questions[i])]
            as == [i \in 1..na |-> DnsAnswer(pkt.answers[i])]
        IN /\ Len(pkt.questions) = nq /\ Len(pkt.answers) = na
           /\ Len(DnsDelivered) <= 1
           /\ (nq >= 1 /\ na = 0) =>
                 DnsDelivered = <<SentEvent(ev.pid, ev.timestamp,
                                    [variant |-> "DnsQuery", questions |-> qs])>>
           /\ na >= 1 =>
                 DnsDelivered = <<SentEvent(ev.pid, ev.timestamp,
                                    [variant |-> "DnsResponse", answers |-> as,
                                     questions |-> qs])>>
           /\ (nq = 0 /\ na = 0) => DnsDelivered = <<>>

\* C9 witness: a response that also carries a question was delivered.
C9_Witness ==
    /\ ParsedDns
    /\ Len(DnsDelivered) = 1
    /\ DnsDelivered[1].payload.variant = "DnsResponse"
    /\ DnsDelivered[1].payload.questions # <<>>
    /\ DnsDelivered[1].payload.answers # <<>>

\* C9 witnesses of the other cases: a query of two questions, and a parsed
\* message with neither questions nor answers.
C9_WitnessQuery ==
    /\ ParsedDns
    /\ Len(DnsDelivered) = 1
    /\ DnsDelivered[1].payload.variant = "DnsQuery"
    /\ Len(DnsDelivered[1].payload.questions) = 2

C9_WitnessNeither ==
    /\ ParsedDns
    /\ DnsDelivered = <<>>

\* the values an event on the bus carries for a pid: the pid of its header and,
\* when its payload has one, an original_pid field
PidsCarried(e) ==
    {e.pid} \cup (IF "original_pid" \in DOMAIN e.payload
                  THEN {e.payload.original_pid} ELSE {})

\* C10 (as claimed): what downstream consumers receive for a Close record carries
\* the record's original_pid, also when it differs from the pid of the context
\* the teardown probe fired in.
C10_CloseProvenance ==
    (net_event # None /\ net_event[1].event.payload.kind = "Close") =>
        \E i \in DOMAIN delivered :
            /\ delivered[i].payload.variant = "Close"
            /\ net_event[1].event.payload.original_pid \in PidsCarried(delivered[i])

----------------------------------------------------------------------------
(* Claims about the captured buffer and DNS reconstruction (SpecNet) *)

\* the last record is a Send or a Receive
MessageReceived ==
    /\ net_event # None
    /\ net_event[1].event.payload.kind \in {"Send", "Receive"}

\* what was delivered for the last record apart from DNS events
TypedDelivered ==
    SelectSeq(delivered, LAMBDA e : e.payload.variant \notin {"DnsQuery", "DnsResponse"})

\* the last record with another reported length
WithDataLen(n) ==
    [net_event[1].event EXCEPT !.payload.data_len = n]

\* C11: for a Send or Receive record every reported length is accepted, also one
\* above the capture capacity or a nonzero one with an empty buffer; the event
\* delivered downstream carries data_len as its length, whatever the captured
\* length; and the DNS events delivered are those of the captured bytes,
\* whatever data_len is.
C11_LengthIndependence ==
    MessageReceived =>
        LET ev == net_event[1].event
        IN /\ Len(TypedDelivered) = 1
           /\ TypedDelivered[1].payload.variant = ev.payload.kind
           /\ TypedDelivered[1].payload.len = ev.payload.data_len
           /\ \A n \in {0, Len(ev.payload.data), MAX_DATA_SIZE, MAX_DATA_SIZE + 1} :
                 /\ collect_dns_if_any(WithDataLen(n)) = collect_dns_if_any(ev)
                 /\ DnsDelivered =
                      SelectSeq(BpfSenderWrapper_send(WithDataLen(n), net_event[1].endian),
                                LAMBDA e : e.payload.variant \in {"DnsQuery", "DnsResponse"})

\* C11 witness: a record reporting more than the capture capacity, whose few
\* captured bytes parse as DNS, was delivered with a DNS event.
C11_Witness ==
    /\ MessageReceived
    /\ net_event[1].event.payload.data_len > MAX_DATA_SIZE
    /\ net_event[1].event.payload.data # <<>>
    /\ DnsDelivered # <<>>
    /\ TypedDelivered # <<>>
    /\ TypedDelivered[1].payload.len > Len(net_event[1].event.payload.data)

\* C11 witness of the other case: a nonzero length with an empty buffer.
C11_WitnessEmpty ==
    /\ MessageReceived
    /\ net_event[1].event.payload.data = <<>>
    /\ net_event[1].event.payload.data_len > 0
    /\ Len(delivered) = 1

----------------------------------------------------------------------------
(* Claims about sensor tasks sharing one engine (SpecPipe) *)

\* C12: whatever the interleaving of the process calls that several producers
\* make on clones of one engine, the rulesets are never modified after
\* construction, and the sends made for an event are those of processing that
\* event alone.
C12_ConcurrentMatching ==
    /\ [][engine' = engine /\ rules' = rules]_vars
    /\ [](\A p \in Producers :
            /\ producers[p].done # None =>
                 producers[p].done[1].sent =
                    PulsarEngine_process(engine.val, producers[p].done[1].event).sent
            /\ \A i \in DOMAIN producers[p].calls :
                 LET call == producers[p].calls[i]
                     alone == PulsarEngine_process(engine.val, call.event).sent
                 IN /\ Len(call.sent) <= Len(alone)
                    /\ call.sent = SubSeq(alone, 1, Len(call.sent)))

\* C12 witness: two producers are inside process at once, on different events,
\* one of them having sent already.
C12_Witness ==
    \E p, q \in Producers :
        /\ p # q
        /\ producers[p].calls # <<>> /\ producers[q].calls # <<>>
        /\ producers[p].calls[1].event # producers[q].calls[1].event
        /\ producers[p].calls[1].sent # <<>>
        /\ producers[q].done # None

----------------------------------------------------------------------------
(* Claims about syscall_monitor_task (SpecTask, LiveTask) *)

\* C13: whenever the shutdown signal is delivered, at whichever point the task
\* is (also while probes are being attached or the event reader is started),
\* the task eventually stops and returns.
C13_CooperativeShutdown ==
    task.shutdown ~> (task.pc = "returned" /\ task.result # None /\ ~task.reading)

\* C13 witness: the signal arrived while probes were being attached, and the task
\* has returned a clean exit.
ShutdownDuringStartup ==
    /\ task.shutdown
    /\ task.pc = "start"
    /\ task.attached # <<>>
    /\ Len(task.attached) < Len(task.builder)

C13_Witness ==
    /\ task.shutdown
    /\ task.pc = "returned"
    /\ task.result = Some(Ok("CleanExit"))

\* C14: within the stream of one sensor, whatever is emitted for a record (its
\* DNS event if any, its typed event, its threat events) is emitted before
\* anything emitted for a record the kernel delivered later.
C14_StreamOrder ==
    \A p \in Producers :
        \A i, j \in DOMAIN producers[p].out :
            i < j => producers[p].out[i].timestamp <= producers[p].out[j].timestamp

\* C14 witness: a sensor has emitted the typed event and a threat event of its
\* first record, then the DNS event and the typed event of its second.
C14_Witness ==
    \E p \in Producers :
        LET out == producers[p].out
        IN /\ Len(out) >= 4
           /\ out[1].timestamp = 1 /\ out[1].what = "Bind"
           /\ out[2] = Emission(1, "threat")
           /\ \E i \in 3..(Len(out) - 1) :
                 /\ out[i] = Emission(2, "DnsQuery")
                 /\ out[i + 1] = Emission(2, "Send")

----------------------------------------------------------------------------
(* Claims about parse_rule, loading order and the ruleset map (Spec) *)

\* the rule of test_rule_parse and what the test expects parse_rule to return
OpenNetcat == UserRule("Open netcat", "Exec", CondNetcat)

OpenNetcatParsed ==
    << "Exec",
       [name |-> "Open netcat",
        condition |-> [field_path |-> << [field_name |-> "payload"],
                                         [variant_name |-> "Exec",
                                          field_name |-> "filename"] >>,
                       op |-> "Equals",
                       value |-> "/usr/bin/nc"]] >>

\* C15: for a loaded rule of a supported type T with a valid condition,
\* parse_rule returns the key of T with a rule that keeps the name and whose
\* condition reads a field under `payload` qualified by the variant T; for the
\* rule Open netcat it returns the path [payload, Exec.filename], the operator
\* equals and the literal /usr/bin/nc.
C15_ParseRule ==
    raw_rules.ok =>
        \A i \in DOMAIN raw_rules.val :
            LET r == raw_rules.val[i]
                parsed == parse_rule(r)
            IN (r.type \in PayloadDiscriminants
                /\ ConditionParser_parse(r.type, r.condition).ok) =>
                  /\ parsed.ok
                  /\ parsed.val[1] = r.type
                  /\ parsed.val[2].name = r.name
                  /\ Len(parsed.val[2].condition.field_path) = 2
                  /\ parsed.val[2].condition.field_path[1] = [field_name |-> "payload"]
                  /\ parsed.val[2].condition.field_path[2].variant_name = r.type
                  /\ r = OpenNetcat => parsed.val = OpenNetcatParsed
                  /\ rules.ok =>
                        \E j \in DOMAIN rules.val[r.type] :
                            rules.val[r.type][j] = parsed.val[2]

\* C15 witness: the rule Open netcat was loaded and compiled into the group of
\* Exec as the test expects.
C15_Witness ==
    /\ raw_rules.ok
    /\ \E i \in DOMAIN raw_rules.val : raw_rules.val[i] = OpenNetcat
    /\ rules.ok
    /\ "Exec" \in DOMAIN rules.val
    /\ rules.val["Exec"][1] = OpenNetcatParsed[2]

\* the rules of key k among compiled (key, rule) pairs, in the order of the pairs
RulesOfKey(pairs, k) ==
    LET sel == SelectSeq(pairs, LAMBDA c : c[1] = k)
    IN [i \in 1..Len(sel) |-> sel[i][2]]

\* C16: the loaded rule list is the concatenation of the lists of the files in
\* discovery order, each in its own order; and after grouping, the group of each
\* event type holds its rules in the relative order they have in that list.
C16_OrderPreserved ==
    /\ raw_rules.ok => raw_rules.val = RulesIn(rules_path)
    /\ (raw_rules.ok /\ rules.ok) =>
          LET compiled == [i \in DOMAIN raw_rules.val |-> parse_rule(raw_rules.val[i]).val]
          IN \A k \in DOMAIN rules.val : rules.val[k] = RulesOfKey(compiled, k)

\* C16 witness: two files of one rule each, different rules of one type, were
\* loaded and grouped.
C16_Witness ==
    /\ rules_path # NoPath
    /\ Len(rules_path.entries) = 2
    /\ \A i \in 1..2 : Len(rules_path.entries[i].records) = 1
    /\ raw_rules.ok /\ rules.ok
    /\ raw_rules.val[1] # raw_rules.val[2]
    /\ \E k \in DOMAIN rules.val : Len(rules.val[k]) = 2

\* the event types that have a rule in the loaded list
KeysWithRules == {raw_rules.val[i].type : i \in DOMAIN raw_rules.val}

\* C17: for every input rule list the duplicate-insertion branch of new is never
\* reached, and after a successful construction the ruleset map has exactly one
\* entry for each event type with at least one rule, none of them empty, and no
\* entry for a type without rules.
C17_UniqueRulesets ==
    Constructed =>
        /\ ~engine.ok => engine.err.kind # "unreachable"
        /\ engine.ok =>
              /\ DOMAIN engine.val = KeysWithRules
              /\ \A k \in DOMAIN engine.val :
                    /\ engine.val[k].rules # <<>>
                    /\ engine.val[k].rules = rules.val[k]

\* C17 witness: an engine was built from rules of two event types, a third type
\* having none.
C17_Witness ==
    /\ Constructed /\ engine.ok
    /\ Cardinality(DOMAIN engine.val) = 2
    /\ PayloadDiscriminants \ DOMAIN engine.val # {}

----------------------------------------------------------------------------
(* Claims about DNS gating (SpecNet) *)

\* the last record cannot carry DNS: it is no Send or Receive, or its captured
\* buffer is empty, or the buffer does not parse
NoDnsInRecord ==
    /\ net_event # None
    /\ \/ net_event[1].event.payload.kind \notin {"Send", "Receive"}
       \/ net_event[1].event.payload.data = <<>>
       \/ ~Packet_parse(net_event[1].event.payload.data).ok

\* C18: no DNS event is produced for a Bind, Connect, Accept or Close record,
\* nor for a Send or Receive whose captured buffer is empty or does not parse as
\* DNS; in each of these cases nothing fails and exactly the event of the
\* record itself is delivered, unchanged.
C18_DnsGating ==
    NoDnsInRecord =>
        LET ev == net_event[1].event
        IN /\ DnsDelivered = <<>>
           /\ collect_dns_if_any(ev) = None
           /\ delivered = <<SentEvent(ev.pid, ev.timestamp,
                                      Payload_from(ev.payload, net_event[1].endian))>>
           /\ delivered[1].payload.variant = ev.payload.kind

\* C18 witness: a Send with a non-empty buffer that is no DNS message was
\* delivered as the Send event alone.
C18_Witness ==
    /\ net_event # None
    /\ net_event[1].event.payload.kind = "Send"
    /\ net_event[1].event.payload.data # <<>>
    /\ ~Packet_parse(net_event[1].event.payload.data).ok
    /\ Len(delivered) = 1
    /\ delivered[1].payload.variant = "Send"

----------------------------------------------------------------------------
(* Claims about probe attachment (SpecTask) *)

Range(s) == {s[i] : i \in DOMAIN s}

\* program has chosen its hook group
GroupChosen == task.lsm # None

\* C19: the hook group is chosen by the LSM detection: with LSM support the five
\* LSM hooks are in the builder and none of the security kprobes, without it the
\* five security kprobes and no LSM hook, never both; each kprobe is the
\* security_ counterpart of the LSM hook of the same rank; the tracepoints and
\* the tcp_set_state kprobe are there in both cases; and a started program has
\* attached exactly the probes of the builder.
C19_HookSelection ==
    /\ Len(SecurityKprobes) = Len(LsmHooks)
    /\ \A i \in DOMAIN LsmHooks :
          /\ LsmHooks[i].kind = "lsm"
          /\ SecurityKprobes[i] = Hook("kprobe", "security_" \o LsmHooks[i].name)
    /\ GroupChosen =>
          LET B == Range(task.builder)
              lsm == task.lsm[1]
          IN /\ Range(CommonHooks) \subseteq B
             /\ Hook("kprobe", "tcp_set_state") \in B
             /\ Cardinality({h \in B : h.kind = "tracepoint"}) = 8
             /\ lsm => (Range(LsmHooks) \subseteq B /\ B \cap Range(SecurityKprobes) = {})
             /\ ~lsm => (Range(SecurityKprobes) \subseteq B /\ B \cap Range(LsmHooks) = {})
             /\ Cardinality(B) = Len(CommonHooks) + Len(LsmHooks)
             /\ Len(task.builder) = Cardinality(B)
             /\ Range(task.attached) \subseteq B
             /\ task.pc \in {"read_events", "shutdown_recv"} => task.attached = task.builder
    /\ ~GroupChosen => (task.attached = <<>> /\ ~task.reading)

\* C19 witnesses: a program reading events with the kprobe group attached, and
\* one with the LSM group attached.
C19_Witness ==
    /\ task.reading
    /\ task.lsm = Some(FALSE)
    /\ Hook("kprobe", "security_socket_recvmsg") \in Range(task.attached)
    /\ Hook("tracepoint", "sys_exit_readv") \in Range(task.attached)

C19_WitnessLsm ==
    /\ task.reading
    /\ task.lsm = Some(TRUE)
    /\ Hook("lsm", "socket_recvmsg") \in Range(task.attached)
    /\ Hook("kprobe", "tcp_set_state") \in Range(task.attached)

\* C20: when starting the program or starting to read its events fails, the task
\* returns that error in the same step, whether or not the shutdown signal has
\* been delivered, with no probe left attached and no reader; and events are
\* read only with every probe of the builder attached.
C20_AttachFailureFatal ==
    /\ (task.program_result # None /\ ~task.program_result[1].ok) =>
          /\ task.pc = "returned"
          /\ task.result = Some(Err(task.program_result[1].err))
          /\ task.attached = <<>> /\ ~task.reading
    /\ task.pc = "shutdown_recv" =>
          /\ task.program_result = Some(Ok("Program"))
          /\ task.reading
    /\ task.reading =>
          (task.attached = task.builder /\ Len(task.attached) = Len(CommonHooks) + Len(LsmHooks))

\* C20 witnesses: start failed on a probe after others were attached, and
\* read_events failed, each before any shutdown signal.
C20_Witness ==
    /\ task.pc = "returned"
    /\ ~task.shutdown
    /\ task.result # None /\ ~task.result[1].ok
    /\ task.result[1].err = ProgramError("permission denied", "security_socket_bind")

C20_WitnessReadEvents ==
    /\ task.pc = "returned"
    /\ ~task.shutdown
    /\ task.result = Some(Err(ProgramError("map error", "events")))

----------------------------------------------------------------------------
(* Claims about the exposure of IPv4 addresses (SpecNet) *)

\* an Addr::V4 was converted to a generic socket address
V4Converted == conv # None /\ conv[1].addr.family = "V4"

\* C21: converting an Addr::V4 whose address is the 32-bit host-order value b
\* yields the octets (b >> 24) mod 256, (b >> 16) mod 256, (b >> 8) mod 256 and
\* b mod 256, in that order, and the port unchanged.
C21_Ipv4Octets ==
    V4Converted =>
        LET c == conv[1]
            b == FromBe32(c.addr.s_addr, c.endian)
            port == FromBe16(c.addr.sin_port, c.endian)
        IN /\ b = U32(c.input.ip[1] * 256 + c.input.ip[2],
                      c.input.ip[3] * 256 + c.input.ip[4])
           /\ port = c.input.port
           /\ c.back.family = "V4"
           /\ c.back.ip = << b.hi \div 256, b.hi % 256, b.lo \div 256, b.lo % 256 >>
           /\ c.back.port = port

\* C21 witness: on a little-endian host, an address whose four octets are not a
\* palindrome, with a port whose two bytes differ, was converted.
C21_Witness ==
    /\ V4Converted
    /\ conv[1].endian = "little"
    /\ conv[1].input.ip = <<127, 0, 255, 0>>
    /\ conv[1].input.port = 53
    /\ conv[1].back.ip = <<127, 0, 255, 0>>
    /\ conv[1].back.port = 53

----------------------------------------------------------------------------
(* Claims about the order of the failure stages of PulsarEngine::new (Spec) *)

\* the least element of a non-empty set of indices
FirstIn(S) == CHOOSE i \in S : \A j \in S : i <= j

\* the entries of the directory that cannot be read, and those that are no rule
\* list
UnreadableEntries(path) ==
    {i \in DOMAIN path.entries : path.entries[i].kind = "Unreadable"}

MalformedEntries(path) ==
    {i \in DOMAIN path.entries : path.entries[i].kind = "Malformed"}

\* the rules of the directory that do not compile
FailingRules(path) ==
    {i \in DOMAIN RulesIn(path) : ~parse_rule(RulesIn(path)[i]).ok}

\* C22: the failure stages of new are strictly ordered. A malformed pattern
\* fails before any file is read; a file that cannot be read is reported before
\* a parse error of any file, also of an earlier one; a file that does not parse
\* is reported before any rule is compiled; the first rule in list order that
\* does not compile is reported before any ruleset is built; and a ruleset
\* error is reported only when every rule has compiled.
C22_FailureStages ==
    Constructed =>
        LET p == rules_path
            unreadable == UnreadableEntries(p)
            malformed == MalformedEntries(p)
            failing == FailingRules(p)
        IN /\ ~p.pattern_ok =>
                 /\ engine = Err([kind |-> "RuleListing"])
                 /\ raw_rules = engine /\ rules = NotReached
           /\ (p.pattern_ok /\ unreadable # {}) =>
                 /\ engine = Err([kind |-> "RuleLoading", name |-> FirstIn(unreadable)])
                 /\ raw_rules = engine /\ rules = NotReached
           /\ (p.pattern_ok /\ unreadable = {} /\ malformed # {}) =>
                 /\ engine = Err([kind |-> "RuleParsing", filename |-> FirstIn(malformed)])
                 /\ raw_rules = engine /\ rules = NotReached
           /\ (p.pattern_ok /\ unreadable = {} /\ malformed = {} /\ failing # {}) =>
                 /\ raw_rules.ok
                 /\ rules = parse_rule(RulesIn(p)[FirstIn(failing)])
                 /\ engine = rules
           /\ (p.pattern_ok /\ unreadable = {} /\ malformed = {} /\ failing = {}) =>
                 /\ raw_rules.ok /\ rules.ok
                 /\ engine.ok \/ engine.err.kind = "RuleCompile"

\* C22 witness: the first file does not parse and the second cannot be read; the
\* read error of the second is the one reported.
C22_Witness ==
    /\ Constructed
    /\ rules_path.pattern_ok
    /\ Len(rules_path.entries) = 2
    /\ rules_path.entries[1].kind = "Malformed"
    /\ rules_path.entries[2].kind = "Unreadable"
    /\ engine = Err([kind |-> "RuleLoading", name |-> 2])

\* C22 witnesses of the other stages: a malformed pattern over a directory with an
\* unreadable file; and a first rule whose ruleset cannot be built followed by a
\* rule that does not compile, the second being the one reported.
C22_WitnessPattern ==
    /\ Constructed
    /\ ~rules_path.pattern_ok
    /\ UnreadableEntries(rules_path) # {}
    /\ engine = Err([kind |-> "RuleListing"])

C22_WitnessCompile ==
    /\ Constructed
    /\ raw_rules.ok
    /\ Len(raw_rules.val) = 2
    /\ parse_rule(raw_rules.val[1]).ok
    /\ ~Ruleset_from_rules(<<parse_rule(raw_rules.val[1]).val[2]>>).ok
    /\ ~parse_rule(raw_rules.val[2]).ok
    /\ engine = parse_rule(raw_rules.val[2])

----------------------------------------------------------------------------
(* Claims about type isolation (SpecRun) *)

\* the rules registered under event type k
GroupRulesOf(k) == IF k \in DOMAIN engine.val THEN engine.val[k].rules ELSE <<>>

\* C23: a rule registered under event type T is evaluated only against events
\* whose payload key is T: a call of process evaluates no rule of another
\* type's group, and every emission it makes names a rule of the group of the
\* event's own type whose condition holds on the event.
C23_TypeIsolation ==
    step # None =>
        LET event == LastStep.event
            key == PayloadDiscriminant_from(event.payload)
        IN /\ \A i \in DOMAIN LastStep.evaluated :
                 \E j \in DOMAIN GroupRulesOf(key) :
                    GroupRulesOf(key)[j] = LastStep.evaluated[i]
           /\ \A t \in PayloadDiscriminants \ {key} :
                 \A j \in DOMAIN GroupRulesOf(t) :
                    /\ \A i \in DOMAIN LastStep.evaluated :
                          LastStep.evaluated[i] # GroupRulesOf(t)[j]
                    /\ \A i \in DOMAIN LastStep.sent :
                          LastStep.sent[i].rule_name # GroupRulesOf(t)[j].name
           /\ \A i \in DOMAIN LastStep.sent :
                 /\ LastStep.sent[i].source = event
                 /\ \E j \in DOMAIN GroupRulesOf(key) :
                       /\ GroupRulesOf(key)[j].name = LastStep.sent[i].rule_name
                       /\ Condition_eval(GroupRulesOf(key)[j].condition, event)

\* C23 witness: the engine holds rules of two event types, and an event of one
\* of them was processed with an emission.
C23_Witness ==
    /\ step # None
    /\ Cardinality(DOMAIN engine.val) = 2
    /\ LastStep.sent # <<>>
    /\ LastStep.evaluated = GroupRulesOf(PayloadDiscriminant_from(LastStep.event.payload))

====
